---- MODULE Spec2Model ----
(***************************************************************************)
(* Model of the go-core-stack/auth request signing and validation code:    *)
(* hash.generator.AddAuthHeaders, hash.validator.Validate and the HMAC      *)
(* helpers they share.                                                      *)
(*                                                                          *)
(* Strings are sequences of byte values (ASCII codes), so that hex          *)
(* encoding/decoding, concatenation and single-bit changes are computed     *)
(* on the bytes as the Go code computes them.                               *)
(*                                                                          *)
(* Abstractions of library code that is not part of the repository:        *)
(*  - crypto/hmac + sha256 is an injective function of (key, message):      *)
(*    the digest is the length-prefixed key followed by the message.        *)
(*  - int64 is modelled as an IntBits-bit two's complement integer.         *)
(*  - time.RFC3339 is reduced to the layout  'T' ss 'Z'  (a literal 'T',    *)
(*    a two-digit seconds field 00..59 and the UTC designator 'Z'); the     *)
(*    instant it denotes is ss seconds after the epoch.                     *)
(***************************************************************************)
EXTENDS Integers, Sequences, FiniteSets, TLC

(***************************************************************************)
(* Bounds                                                                   *)
(***************************************************************************)
\* width of the modelled int64
IntBits == 8
\* largest value of the wall clock (seconds since the epoch)
MaxClock == 2
\* number of AddAuthHeaders calls on the one request
MaxSigns == 2
\* number of Header.Set / Header.Del edits of the request
MaxEdits == 1
\* seconds by which the signer's clock may be ahead of the validator's
MaxSkew == 1
\* number of goroutines that call Validate on the shared validator
NumGoroutines == 2
\* number of goroutines that call GetRouteTable / LocateRouteTable
NumRouteCallers == 2
\* number of GetRouteTable / LocateRouteTable calls made one after the other
MaxRouteCalls == 6
\* calls that goroutines may start concurrently
MaxRouteConcCalls == 3

MaxInt == 2^(IntBits - 1) - 1
MinInt == -(2^(IntBits - 1))

\* int64 addition: wraps around silently
Add64(a, b) == ((a + b - MinInt) % 2^IntBits) + MinInt

(***************************************************************************)
(* Bytes and strings                                                        *)
(***************************************************************************)
\* the value of bit k of byte c inverted
FlipBit(c, k) == IF (c \div 2^k) % 2 = 1 THEN c - 2^k ELSE c + 2^k

\* s with bit k of its i-th byte inverted
FlipAt(s, i, k) == [s EXCEPT ![i] = FlipBit(s[i], k)]

\* strings.Join(v, ""): the concatenation of a sequence of strings
RECURSIVE Join(_)
Join(v) == IF v = <<>> THEN <<>> ELSE Head(v) \o Join(Tail(v))

\* "GET"
GET == <<71, 69, 84>>
\* "/a"
PathA == <<47, 97>>
\* secrets "k" and "s", identifier "i"
SecretK == <<107>>
SecretS == <<115>>
KeyId == <<105>>

Methods == {GET}
Paths == {PathA}
Secrets == {SecretK, SecretS}

(***************************************************************************)
(* encoding/hex                                                             *)
(***************************************************************************)
\* hex.EncodeToString uses the lowercase table "0123456789abcdef"
HexDigit(n) == IF n < 10 THEN 48 + n ELSE 87 + n

RECURSIVE EncodeToString(_)
EncodeToString(b) ==
    IF b = <<>> THEN <<>>
    ELSE <<HexDigit(Head(b) \div 16), HexDigit(Head(b) % 16)>> \o EncodeToString(Tail(b))

\* fromHexChar: '0'..'9', 'a'..'f' and 'A'..'F' are hex digits; -1 otherwise
FromHexChar(c) ==
    IF c >= 48 /\ c <= 57 THEN c - 48
    ELSE IF c >= 97 /\ c <= 102 THEN c - 87
    ELSE IF c >= 65 /\ c <= 70 THEN c - 55
    ELSE -1

\* hex.DecodeString fails on an odd length or on a byte that is no hex digit
HexValid(s) ==
    /\ Len(s) % 2 = 0
    /\ \A i \in 1..Len(s) : FromHexChar(s[i]) >= 0

DecodeString(s) ==
    [i \in 1..(Len(s) \div 2) |-> 16 * FromHexChar(s[2 * i - 1]) + FromHexChar(s[2 * i])]

(***************************************************************************)
(* HMAC                                                                     *)
(***************************************************************************)
\* variant: the first string is left out of the digest
generateSHA256HMAC_SkipFirst(secret, v) == <<Len(secret)>> \o secret \o Join(Tail(v))

\* generateSHA256HMAC: the raw digest of the joined strings under the key
generateSHA256HMAC(secret, v) == <<Len(secret)>> \o secret \o Join(v)

\* GenerateSHA256HMAC: the digest, hex encoded
GenerateSHA256HMAC(secret, v) == EncodeToString(generateSHA256HMAC(secret, v))

(***************************************************************************)
(* time                                                                     *)
(***************************************************************************)
\* time.Time.Format(time.RFC3339) of the instant t seconds after the epoch
Format(t) == <<84, 48 + (t \div 10), 48 + (t % 10), 90>>

IsDigit(c) == c >= 48 /\ c <= 57

\* time.Parse(time.RFC3339, s) succeeds
ParseOk(s) ==
    /\ Len(s) = 4
    /\ s[1] = 84
    /\ IsDigit(s[2]) /\ IsDigit(s[3])
    /\ 10 * (s[2] - 48) + (s[3] - 48) <= 59
    /\ s[4] = 90

\* time.Parse(time.RFC3339, s).Unix()
ParseUnix(s) == 10 * (s[2] - 48) + (s[3] - 48)

(***************************************************************************)
(* net/http.Header: canonical key -> list of values                        *)
(***************************************************************************)
HeaderKeys == {"x-signature", "x-api-key-id", "x-timestamp", "accept"}

\* a request without any header
NoHeader == [k \in HeaderKeys |-> <<>>]

\* Header.Add appends to the values already stored under the key
HeaderAdd(h, key, value) == [h EXCEPT ![key] = Append(@, value)]

\* Header.Set replaces the values stored under the key
HeaderSet(h, key, value) == [h EXCEPT ![key] = <<value>>]

\* Header.Del removes the key
HeaderDel(h, key) == [h EXCEPT ![key] = <<>>]

\* Header.Get: the first value stored under the key, "" when there is none
HeaderGet(h, key) == IF h[key] = <<>> THEN <<>> ELSE h[key][1]

\* len(r.Header): the number of keys present
HeaderLen(h) == Cardinality({k \in HeaderKeys : h[k] # <<>>})

(***************************************************************************)
(* validator.Validate                                                       *)
(***************************************************************************)
Accepted == [ok |-> TRUE, err |-> "nil"]
Rejected(reason) == [ok |-> FALSE, err |-> reason]

\* variant: the comparison of the window check is turned around
Expired_Reversed(now, unix, validity) == now <= Add64(unix, validity)

\* the window check: now >= timeStamp.Unix() + v.validity, in int64
Expired(now, unix, validity) == now >= Add64(unix, validity)

\* hmac.Equal(sig, generateSHA256HMAC(secret, r.Method, r.URL.Path, timeStr))
SignatureMatches(sig, secret, r, timeStr) ==
    sig = generateSHA256HMAC(secret, <<r.Method, r.Path, timeStr>>)

\* variant: the signature is compared before the window is checked
ValidateTimestamp_CompareFirst(r, secret, now, validity, sigStr) ==
    LET timeStr == HeaderGet(r.Header, "x-timestamp") IN
    IF timeStr = <<>> THEN Rejected("missing timestamp header")
    ELSE IF ~ParseOk(timeStr) THEN Rejected("error parsing timestamp")
    ELSE IF ~SignatureMatches(DecodeString(sigStr), secret, r, timeStr)
         THEN Rejected("invalid hmac signature")
    ELSE IF Expired(now, ParseUnix(timeStr), validity) THEN Rejected("expired access")
    ELSE Accepted

\* the part of Validate after the signature header was decoded
ValidateTimestamp(r, secret, now, validity, sigStr) ==
    LET timeStr == HeaderGet(r.Header, "x-timestamp") IN
    IF timeStr = <<>> THEN Rejected("missing timestamp header")
    ELSE IF ~ParseOk(timeStr) THEN Rejected("error parsing timestamp")
    ELSE IF Expired(now, ParseUnix(timeStr), validity) THEN Rejected("expired access")
    ELSE IF ~SignatureMatches(DecodeString(sigStr), secret, r, timeStr)
         THEN Rejected("invalid hmac signature")
    ELSE Accepted

\* variant: a request that carries headers but no signature is let through
Validate_UnsignedPass(r, secret, now, validity) ==
    LET sigStr == HeaderGet(r.Header, "x-signature") IN
    IF HeaderLen(r.Header) = 0 THEN Rejected("missing required headers")
    ELSE IF sigStr = <<>> THEN Accepted
    ELSE IF ~HexValid(sigStr) THEN Rejected("invalid signature format")
    ELSE ValidateTimestamp(r, secret, now, validity, sigStr)

\* Validate(r, secret) of a validator with window validity, when time.Now().Unix() = now
Validate(r, secret, now, validity) ==
    LET sigStr == HeaderGet(r.Header, "x-signature") IN
    IF HeaderLen(r.Header) = 0 THEN Rejected("missing required headers")
    ELSE IF sigStr = <<>> THEN Rejected("missing signature header")
    ELSE IF ~HexValid(sigStr) THEN Rejected("invalid signature format")
    ELSE ValidateTimestamp(r, secret, now, validity, sigStr)

(***************************************************************************)
(* generator.AddAuthHeaders                                                 *)
(***************************************************************************)
\* the timestamp string of a call made when the clock shows now
SignTimeStamp(now) == Format(now)

\* the signature computed by the call
SignSignature(g, r, now) == GenerateSHA256HMAC(g.secret, <<r.Method, r.Path, SignTimeStamp(now)>>)

\* the request after AddAuthHeaders(r)
Signed(g, r, now) ==
    [r EXCEPT !.Header =
        HeaderAdd(HeaderAdd(HeaderAdd(@, "x-signature", SignSignature(g, r, now)),
                            "x-api-key-id", g.id),
                  "x-timestamp", SignTimeStamp(now))]

(***************************************************************************)
(* State                                                                    *)
(***************************************************************************)
VARIABLES
    validity,   \* validator.validity, set by NewValidator
    gen,        \* the generator: [id, secret], set by NewGenerator
    req,        \* the request: [Method, Path, Header]
    clock,      \* time.Now().Unix()
    res,        \* the outcome of the latest Validate call, made on req at clock;
                \* again: an earlier call with that secret had rejected req
    signs,      \* number of AddAuthHeaders calls made
    edits,      \* number of Header.Set / Header.Del calls made
    signRec,    \* what the latest AddAuthHeaders call computed
    signedAt,   \* clock of the latest AddAuthHeaders call, -1 once req was changed
    base,       \* the accepted request a single bit was changed in
    rej,        \* secrets under which Validate has rejected req as it is now
    calls,      \* per goroutine, the Validate call it is executing step by step
    cli,        \* the client built by NewClient: its parsed endpoint
    do,         \* the Client.Do call: req.URL, what was signed, what was dispatched
    rt,         \* package route: the routeTable variable and what was done to it
    rp          \* per goroutine, the route table call it is executing

vars == <<validity, gen, req, clock, res, signs, edits, signRec, signedAt, base, rej, calls,
          cli, do, rt, rp>>

\* validity windows (non-negative numbers of seconds): small ones and the
\* largest int64
Windows == {0, 1, 2, MaxInt}

\* values a caller stores with Header.Set: "de" (hex, no valid signature),
\* "zz" (no hex), "T00Z" (the epoch), "x" (no timestamp), "i", "a"
SetValues ==
    [k \in HeaderKeys |->
        CASE k = "x-signature" -> {<<100, 101>>, <<122, 122>>}
          [] k = "x-timestamp" -> {Format(0), <<120>>}
          [] k = "x-api-key-id" -> {KeyId}
          [] OTHER -> {<<97>>}]

NoResult == [called |-> FALSE, ok |-> FALSE, err |-> "", secret |-> <<>>, now |-> 0, again |-> FALSE]
NoSign == [made |-> FALSE, sig |-> <<>>, ts |-> <<>>]
NoRejection == {}

Goroutines == 1..NumGoroutines
Idle == [pc |-> "idle", r |-> <<>>, secret |-> <<>>, window |-> 0, now |-> -1,
         ok |-> FALSE, err |-> ""]
NoBase == [set |-> FALSE, before |-> <<>>, after |-> <<>>, field |-> "", secret |-> <<>>, now |-> 0]

\* a URL: scheme, host and path as byte strings
NilURL == [Scheme |-> <<>>, Host |-> <<>>, Path |-> <<>>]
NoClient == [built |-> FALSE, err |-> FALSE, url |-> NilURL]
\* what a step of Client.Do saw of the request
NoSnapshot == [Scheme |-> <<>>, Host |-> <<>>, Method |-> <<>>, Path |-> <<>>,
               Header |-> <<>>]
NoDo == [pc |-> "idle", url |-> NilURL, orig |-> NilURL, signed |-> NoSnapshot,
         sent |-> NoSnapshot]

\* a *RouteTable: nil, or the id-th instance created, with its collection
NilTable == [id |-> 0, col |-> 0]
NoRouteCall == [op |-> "", before |-> NilTable, ret |-> NilTable, err |-> "",
                initialized |-> FALSE]
NoRouteTable == [routeTable |-> NilTable, created |-> 0, first |-> NilTable,
                 stored |-> {}, returned |-> {}, n |-> 0, last |-> NoRouteCall]
RouteCallers == 1..NumRouteCallers
RouteIdle == [pc |-> "idle", op |-> "", client |-> 0, tbl |-> NilTable]

\* NewValidator(validity), NewGenerator(id, secret), httptest.NewRequest(method, path)
Init ==
    /\ validity \in Windows
    /\ gen = [id |-> KeyId, secret |-> SecretK]
    /\ req \in [Method : Methods, Path : Paths, Header : {NoHeader}]
    /\ clock = 0
    /\ res = NoResult
    /\ signs = 0
    /\ edits = 0
    /\ signRec = NoSign
    /\ signedAt = -1
    /\ base = NoBase
    /\ rej = NoRejection
    /\ calls = [g \in Goroutines |-> Idle]
    /\ cli = NoClient
    /\ do = NoDo
    /\ rt = NoRouteTable
    /\ rp = [p \in RouteCallers |-> RouteIdle]

\* the wall clock advances
Tick ==
    /\ clock < MaxClock
    /\ ~base.set
    /\ clock' = clock + 1
    /\ res' = NoResult
    /\ UNCHANGED <<validity, gen, req, signs, edits, signRec, signedAt, base, rej, calls>>
    /\ UNCHANGED <<cli, do, rt, rp>>

\* gen.AddAuthHeaders(req), on a machine whose time.Now() is now
AddAuthHeaders ==
    /\ signs < MaxSigns
    /\ ~base.set
    /\ \E now \in clock..(clock + MaxSkew) :
         /\ req' = Signed(gen, req, now)
         /\ signRec' = [made |-> TRUE, sig |-> SignSignature(gen, req, now),
                        ts |-> SignTimeStamp(now)]
         /\ signedAt' = now
    /\ signs' = signs + 1
    /\ res' = NoResult
    /\ rej' = NoRejection
    /\ UNCHANGED <<validity, gen, clock, edits, base, calls>>
    /\ UNCHANGED <<cli, do, rt, rp>>

\* req.Header.Set(key, value)
SetHeader(key, value) ==
    /\ edits < MaxEdits
    /\ ~base.set
    /\ req' = [req EXCEPT !.Header = HeaderSet(@, key, value)]
    /\ edits' = edits + 1
    /\ signedAt' = -1
    /\ res' = NoResult
    /\ rej' = NoRejection
    /\ UNCHANGED <<validity, gen, clock, signs, signRec, base, calls>>
    /\ UNCHANGED <<cli, do, rt, rp>>

\* req.Header.Del(key)
DelHeader(key) ==
    /\ edits < MaxEdits
    /\ ~base.set
    /\ req.Header[key] # <<>>
    /\ req' = [req EXCEPT !.Header = HeaderDel(@, key)]
    /\ edits' = edits + 1
    /\ signedAt' = -1
    /\ res' = NoResult
    /\ rej' = NoRejection
    /\ UNCHANGED <<validity, gen, clock, signs, signRec, base, calls>>
    /\ UNCHANGED <<cli, do, rt, rp>>

\* what the tamper claim ranges over
SignedFields == {"method", "path", "x-signature", "x-timestamp"}

\* the request with one bit of the named field changed
Flipped(r, field, i, k) ==
    CASE field = "method" -> [r EXCEPT !.Method = FlipAt(@, i, k)]
      [] field = "path" -> [r EXCEPT !.Path = FlipAt(@, i, k)]
      [] OTHER -> [r EXCEPT !.Header[field][1] = FlipAt(@, i, k)]

\* the bytes of the named field that Validate reads
FieldOf(r, field) ==
    CASE field = "method" -> r.Method
      [] field = "path" -> r.Path
      [] OTHER -> HeaderGet(r.Header, field)

\* a single bit is changed in a request that was signed once, not edited, and
\* has just been accepted by Validate; the changed request is only validated
FlipOneBit ==
    /\ res.called /\ res.ok
    /\ signs = 1 /\ edits = 0
    /\ ~base.set
    /\ \E field \in SignedFields : \E i \in 1..Len(FieldOf(req, field)) : \E k \in 0..7 :
         /\ req' = Flipped(req, field, i, k)
         /\ base' = [set |-> TRUE, before |-> req, after |-> req', field |-> field,
                     secret |-> res.secret, now |-> res.now]
    /\ signedAt' = -1
    /\ res' = NoResult
    /\ rej' = NoRejection
    /\ UNCHANGED <<validity, gen, clock, signs, edits, signRec, calls>>
    /\ UNCHANGED <<cli, do, rt, rp>>

\* v.Validate(req, secret)
ValidateCall(secret) ==
    /\ res' = [called |-> TRUE, secret |-> secret, now |-> clock, again |-> secret \in rej,
               ok |-> Validate(req, secret, clock, validity).ok,
               err |-> Validate(req, secret, clock, validity).err]
    /\ rej' = IF Validate(req, secret, clock, validity).ok THEN rej ELSE rej \cup {secret}
    /\ UNCHANGED <<validity, gen, req, clock, signs, edits, signRec, signedAt, base, calls>>
    /\ UNCHANGED <<cli, do, rt, rp>>

Next ==
    \/ Tick
    \/ AddAuthHeaders
    \/ \E key \in HeaderKeys : \E value \in SetValues[key] : SetHeader(key, value)
    \/ \E key \in HeaderKeys : DelHeader(key)
    \/ FlipOneBit
    \/ \E secret \in Secrets : ValidateCall(secret)

Spec == Init /\ [][Next]_vars

(***************************************************************************)
(* Properties                                                               *)
(***************************************************************************)
SigStr == HeaderGet(req.Header, "x-signature")
TimeStr == HeaderGet(req.Header, "x-timestamp")

\* the headers Validate reads decode and parse
WellFormed == SigStr # <<>> /\ HexValid(SigStr) /\ TimeStr # <<>> /\ ParseOk(TimeStr)

\* req carries the signature of its method, path and timestamp header under secret
CorrectlySigned(secret) ==
    /\ WellFormed
    /\ DecodeString(SigStr) = generateSHA256HMAC(secret, <<req.Method, req.Path, TimeStr>>)

\* C1: a request validated right after AddAuthHeaders, with the generator's
\* secret, at the signing clock and under a positive window, is accepted,
\* whatever headers it carried before.
C1_RoundTrip ==
    (res.called /\ signedAt = res.now /\ res.secret = gen.secret /\ validity > 0) => res.ok

\* C2: a correctly signed request with timestamp T is accepted at every
\* now < T + window (also when T lies in the future) and rejected as expired
\* at every now >= T + window.
C2_WindowBoundary ==
    (res.called /\ CorrectlySigned(res.secret)) =>
        IF res.now < ParseUnix(TimeStr) + validity
        THEN res.ok
        ELSE ~res.ok /\ res.err = "expired access"

\* C3 as stated: no request is accepted unless the signature, the identifier
\* and the timestamp header are all present.
C3_AllThreeRequired ==
    (res.called /\ res.ok) =>
        \A k \in {"x-signature", "x-api-key-id", "x-timestamp"} : req.Header[k] # <<>>

\* C3 as amended: no request is accepted unless the signature and the
\* timestamp header are present; the identifier header is not examined.
C3_SignatureAndTimestampRequired ==
    (res.called /\ res.ok) =>
        \A k \in {"x-signature", "x-timestamp"} : req.Header[k] # <<>>

\* a request that lost its timestamp header was rejected
C3_Witness ==
    /\ res.called /\ ~res.ok
    /\ req.Header["x-signature"] # <<>>
    /\ req.Header["x-timestamp"] = <<>>

\* the changed request was validated with the secret and at the clock of the
\* call that had accepted the unchanged one
TamperValidated ==
    /\ base.set /\ res.called
    /\ req = base.after
    /\ res.secret = base.secret /\ res.now = base.now

\* new is old with the case of one hex letter (a..f, A..F) changed
CaseChanged(old, new) ==
    \E i \in 1..Len(old) :
        \/ /\ old[i] >= 97 /\ old[i] <= 102
           /\ new = [old EXCEPT ![i] = old[i] - 32]
        \/ /\ old[i] >= 65 /\ old[i] <= 70
           /\ new = [old EXCEPT ![i] = old[i] + 32]

\* C4 as stated: a single changed bit of the signature header, the method, the
\* path or the timestamp header of an accepted request is rejected as a
\* signature mismatch or as a decode/parse failure.
C4_TamperSensitivity ==
    TamperValidated =>
        /\ ~res.ok
        /\ res.err \in {"invalid hmac signature", "invalid signature format",
                        "error parsing timestamp"}

\* C4 as amended: a changed bit of the method or the path is rejected as a
\* signature mismatch; a changed bit of the timestamp header is rejected as a
\* parse failure, as expired or as a signature mismatch; a changed bit of the
\* signature header is rejected as a decode failure or a signature mismatch,
\* unless it only changes the case of a hex letter: then the decoded
\* signature is the same and the request is still accepted.
C4_TamperRejected ==
    TamperValidated =>
        CASE base.field \in {"method", "path"} ->
                ~res.ok /\ res.err = "invalid hmac signature"
          [] base.field = "x-timestamp" ->
                ~res.ok /\ res.err \in {"error parsing timestamp", "expired access",
                                        "invalid hmac signature"}
          [] OTHER ->
                IF CaseChanged(HeaderGet(base.before.Header, "x-signature"), SigStr)
                THEN res.ok
                ELSE ~res.ok /\ res.err \in {"invalid signature format",
                                             "invalid hmac signature"}

\* a changed bit of the method was rejected as a signature mismatch
C4_Witness ==
    /\ TamperValidated
    /\ base.field = "method"
    /\ res.err = "invalid hmac signature"

\* the outcome of the steps of Validate taken in the order: presence of the
\* signature and of the timestamp header, signature decode, timestamp parse,
\* window check, signature comparison
InDocumentedOrder(r, secret, now, window) ==
    LET sigStr == HeaderGet(r.Header, "x-signature")
        timeStr == HeaderGet(r.Header, "x-timestamp")
    IN  IF HeaderLen(r.Header) = 0 THEN Rejected("missing required headers")
        ELSE IF sigStr = <<>> THEN Rejected("missing signature header")
        ELSE IF timeStr = <<>> THEN Rejected("missing timestamp header")
        ELSE IF ~HexValid(sigStr) THEN Rejected("invalid signature format")
        ELSE IF ~ParseOk(timeStr) THEN Rejected("error parsing timestamp")
        ELSE IF Expired(now, ParseUnix(timeStr), window) THEN Rejected("expired access")
        ELSE IF ~SignatureMatches(DecodeString(sigStr), secret, r, timeStr)
             THEN Rejected("invalid hmac signature")
        ELSE Accepted

\* C5: the reason Validate gives is that of the first failing step in the
\* order presence of both headers, decode, parse, window, comparison; a
\* missing timestamp header is reported before an invalid signature encoding.
C5_StepOrder ==
    res.called =>
        /\ res.ok = InDocumentedOrder(req, res.secret, res.now, validity).ok
        /\ res.err = InDocumentedOrder(req, res.secret, res.now, validity).err

\* C6: a request (carrying some header) without signature header is rejected
\* as MissingSignature; one with a signature header but without timestamp
\* header as MissingTimestamp; a signature that is no hex as
\* InvalidSignatureEncoding; a timestamp that does not parse as
\* InvalidTimestampFormat.
C6_HeaderReasons ==
    res.called =>
        /\ (HeaderLen(req.Header) > 0 /\ SigStr = <<>>)
              => res.err = "missing signature header"
        /\ (SigStr # <<>> /\ TimeStr = <<>>)
              => res.err = "missing timestamp header"
        /\ (SigStr # <<>> /\ ~HexValid(SigStr))
              => res.err = "invalid signature format"
        /\ (SigStr # <<>> /\ HexValid(SigStr) /\ TimeStr # <<>> /\ ~ParseOk(TimeStr))
              => res.err = "error parsing timestamp"

\* C7: after AddAuthHeaders the signature, identifier and timestamp a reader
\* of the request obtains are the ones that call computed, and the signature
\* is the HMAC over that timestamp, also when the request had been signed or
\* carried those headers before.
C7_HeadersAsComputed ==
    (signRec.made /\ signedAt # -1) =>
        /\ SigStr = signRec.sig
        /\ HeaderGet(req.Header, "x-api-key-id") = gen.id
        /\ TimeStr = signRec.ts
        /\ signRec.sig = GenerateSHA256HMAC(gen.secret, <<req.Method, req.Path, signRec.ts>>)

\* C8: a request whose signature header is hex and whose timestamp header
\* parses, validated at now >= timestamp + window, is rejected with exactly
\* 'expired access', whether or not its signature matches.
C8_ExpiryBeforeComparison ==
    (res.called /\ WellFormed /\ res.now >= ParseUnix(TimeStr) + validity) =>
        ~res.ok /\ res.err = "expired access"

\* an expired request whose signature does not match was reported as expired
C8_Witness ==
    /\ res.called /\ WellFormed
    /\ res.now >= ParseUnix(TimeStr) + validity
    /\ ~CorrectlySigned(res.secret)
    /\ res.err = "expired access"

\* C9: once Validate has rejected a request, every later Validate call with
\* the same secret on the unchanged request rejects it too.
C9_RejectionsTerminal == (res.called /\ res.again) => ~res.ok

\* a request rejected before was validated again, after the clock had
\* advanced, and was rejected as expired
C9_Witness ==
    /\ res.called /\ res.again /\ ~res.ok
    /\ res.now > 0
    /\ res.err = "expired access"

(***************************************************************************)
(* Concurrent Validate calls on one shared validator                        *)
(***************************************************************************)
Gen0 == [id |-> KeyId, secret |-> SecretK]
Request0 == [Method |-> GET, Path |-> PathA, Header |-> NoHeader]

\* the requests the goroutines validate: one signed at second 1, the same
\* with the signature header replaced by "de", and one without headers
ConcRequests ==
    {Signed(Gen0, Request0, 1),
     [Signed(Gen0, Request0, 1) EXCEPT !.Header = HeaderSet(@, "x-signature", <<100, 101>>)],
     Request0}

InitConc ==
    /\ Init
    /\ req = Request0

\* the call of goroutine g returns
Return(g, result) ==
    [calls EXCEPT ![g].pc = "done", ![g].ok = result.ok, ![g].err = result.err]

\* goroutine g calls v.Validate(r, secret); window records v.validity at the call
Begin(g) ==
    /\ calls[g].pc = "idle"
    /\ \E r \in ConcRequests :
         calls' = [calls EXCEPT ![g] = [Idle EXCEPT !.pc = "signature", !.r = r,
                                        !.secret = gen.secret, !.window = validity]]
    /\ UNCHANGED <<validity, gen, req, clock, res, signs, edits, signRec, signedAt, base, rej>>
    /\ UNCHANGED <<cli, do, rt, rp>>

\* the header check and the signature header: presence and hex decoding
StepSignature(g) ==
    /\ calls[g].pc = "signature"
    /\ LET r == calls[g].r
           sigStr == HeaderGet(r.Header, "x-signature")
       IN  calls' =
             IF HeaderLen(r.Header) = 0 THEN Return(g, Rejected("missing required headers"))
             ELSE IF sigStr = <<>> THEN Return(g, Rejected("missing signature header"))
             ELSE IF ~HexValid(sigStr) THEN Return(g, Rejected("invalid signature format"))
             ELSE [calls EXCEPT ![g].pc = "timestamp"]
    /\ UNCHANGED <<validity, gen, req, clock, res, signs, edits, signRec, signedAt, base, rej>>
    /\ UNCHANGED <<cli, do, rt, rp>>

\* the timestamp header: presence and parsing
StepTimestamp(g) ==
    /\ calls[g].pc = "timestamp"
    /\ LET timeStr == HeaderGet(calls[g].r.Header, "x-timestamp")
       IN  calls' =
             IF timeStr = <<>> THEN Return(g, Rejected("missing timestamp header"))
             ELSE IF ~ParseOk(timeStr) THEN Return(g, Rejected("error parsing timestamp"))
             ELSE [calls EXCEPT ![g].pc = "window"]
    /\ UNCHANGED <<validity, gen, req, clock, res, signs, edits, signRec, signedAt, base, rej>>
    /\ UNCHANGED <<cli, do, rt, rp>>

\* variant: the window check stores the deadline in v.validity
StepWindow_StoresDeadline(g) ==
    /\ calls[g].pc = "window"
    /\ LET timeStr == HeaderGet(calls[g].r.Header, "x-timestamp")
       IN  /\ validity' = Add64(ParseUnix(timeStr), validity)
           /\ calls' =
                IF clock >= validity'
                THEN [Return(g, Rejected("expired access")) EXCEPT ![g].now = clock]
                ELSE [calls EXCEPT ![g].pc = "compare", ![g].now = clock]
    /\ UNCHANGED <<gen, req, clock, res, signs, edits, signRec, signedAt, base, rej>>
    /\ UNCHANGED <<cli, do, rt, rp>>

\* the window check: reads the clock and v.validity
StepWindow(g) ==
    /\ calls[g].pc = "window"
    /\ LET timeStr == HeaderGet(calls[g].r.Header, "x-timestamp")
       IN  calls' =
             IF Expired(clock, ParseUnix(timeStr), validity)
             THEN [Return(g, Rejected("expired access")) EXCEPT ![g].now = clock]
             ELSE [calls EXCEPT ![g].pc = "compare", ![g].now = clock]
    /\ UNCHANGED <<validity, gen, req, clock, res, signs, edits, signRec, signedAt, base, rej>>
    /\ UNCHANGED <<cli, do, rt, rp>>

\* the signature comparison
StepCompare(g) ==
    /\ calls[g].pc = "compare"
    /\ LET r == calls[g].r
           sigStr == HeaderGet(r.Header, "x-signature")
           timeStr == HeaderGet(r.Header, "x-timestamp")
       IN  calls' =
             IF ~SignatureMatches(DecodeString(sigStr), calls[g].secret, r, timeStr)
             THEN Return(g, Rejected("invalid hmac signature"))
             ELSE Return(g, Accepted)
    /\ UNCHANGED <<validity, gen, req, clock, res, signs, edits, signRec, signedAt, base, rej>>
    /\ UNCHANGED <<cli, do, rt, rp>>

NextConc ==
    \/ Tick
    \/ \E g \in Goroutines : Begin(g)
    \/ \E g \in Goroutines : StepSignature(g)
    \/ \E g \in Goroutines : StepTimestamp(g)
    \/ \E g \in Goroutines : StepWindow(g)
    \/ \E g \in Goroutines : StepCompare(g)

SpecConc == InitConc /\ [][NextConc]_vars

\* C10: no Validate call writes the validity window, and under any
\* interleaving each call on the shared validator returns what Validate
\* returns for its own request, secret and clock value alone.
C10_StatelessValidator ==
    \A g \in Goroutines :
        calls[g].pc = "done" =>
            /\ validity = calls[g].window
            /\ calls[g].ok =
                 Validate(calls[g].r, calls[g].secret, calls[g].now, calls[g].window).ok
            /\ calls[g].err =
                 Validate(calls[g].r, calls[g].secret, calls[g].now, calls[g].window).err

\* one call was accepted and another rejected as expired on the same validator
C10_Witness ==
    \E g, h \in Goroutines :
        /\ calls[g].pc = "done" /\ calls[g].ok
        /\ calls[h].pc = "done" /\ calls[h].err = "expired access"

(***************************************************************************)
(* The signature and timestamp of one request presented with another        *)
(* method and path                                                          *)
(***************************************************************************)
\* "GE"
GE == <<71, 69>>
\* "T/a"
PathTA == <<84, 47, 97>>

\* methods and paths whose concatenations partly coincide: r.Method and
\* r.URL.Path are arbitrary strings
BindMethods == {GET, GE}
BindPaths == {PathA, PathTA}

InitBind ==
    /\ validity \in Windows
    /\ gen = [id |-> KeyId, secret |-> SecretK]
    /\ req \in [Method : BindMethods, Path : BindPaths, Header : {NoHeader}]
    /\ clock = 0
    /\ res = NoResult
    /\ signs = 0
    /\ edits = 0
    /\ signRec = NoSign
    /\ signedAt = -1
    /\ base = NoBase
    /\ rej = NoRejection
    /\ calls = [g \in Goroutines |-> Idle]
    /\ cli = NoClient
    /\ do = NoDo
    /\ rt = NoRouteTable
    /\ rp = [p \in RouteCallers |-> RouteIdle]

\* the headers of the signed request are sent with another method and path
Replay ==
    /\ signedAt # -1
    /\ ~base.set
    /\ \E m \in BindMethods : \E p \in BindPaths :
         /\ <<m, p>> # <<req.Method, req.Path>>
         /\ req' = [req EXCEPT !.Method = m, !.Path = p]
         /\ base' = [set |-> TRUE, before |-> req, after |-> req', field |-> "replay",
                     secret |-> gen.secret, now |-> clock]
    /\ signedAt' = -1
    /\ res' = NoResult
    /\ rej' = NoRejection
    /\ UNCHANGED <<validity, gen, clock, signs, edits, signRec, calls>>
    /\ UNCHANGED <<cli, do, rt, rp>>

NextBind ==
    \/ Tick
    \/ AddAuthHeaders
    \/ Replay
    \/ \E secret \in Secrets : ValidateCall(secret)

SpecBind == InitBind /\ [][NextBind]_vars

\* the request carrying the replayed headers was validated
ReplayValidated ==
    /\ base.set /\ base.field = "replay"
    /\ res.called
    /\ req = base.after

\* C15 as stated: the signature and timestamp header produced by signing
\* method M and path P are accepted only for requests with method M and
\* path P; with another (method, path) pair they are never accepted.
C15_BindsMethodAndPath == ReplayValidated => ~res.ok

\* C15 as amended: they are accepted only for requests whose method and path
\* concatenate to the same bytes as M followed by P; a different pair with
\* the same concatenation is accepted.
C15_BindsConcatenation ==
    ReplayValidated =>
        (res.ok => req.Method \o req.Path = base.before.Method \o base.before.Path)

\* a request with another method and path, of the same concatenation, was
\* accepted under the replayed signature
C15_Witness ==
    /\ ReplayValidated /\ res.ok
    /\ req.Method # base.before.Method
    /\ req.Path # base.before.Path

\* C16: for non-negative windows w1 <= w2, a request the validator with
\* window w1 accepts is accepted by the validator with window w2, for the
\* same secret and clock; timestamp + window does not wrap around.
C16_WindowMonotone ==
    (res.called /\ res.ok) =>
        \A w2 \in validity..MaxInt : Validate(req, res.secret, res.now, w2).ok

(***************************************************************************)
(* client.NewClient and client.Do                                           *)
(***************************************************************************)
IsLetter(c) == (c >= 97 /\ c <= 122) \/ (c >= 65 /\ c <= 90)

\* url.Parse fails on a control character and on a missing scheme before ':'
ParseFails(s) ==
    \/ \E i \in 1..Len(s) : s[i] < 32 \/ s[i] = 127
    \/ (Len(s) > 0 /\ s[1] = 58)

\* the length of the scheme: letters followed by ':', or 0 when there is none
SchemeLen(s) ==
    IF \E n \in 1..(Len(s) - 1) : s[n + 1] = 58 /\ \A i \in 1..n : IsLetter(s[i])
    THEN CHOOSE n \in 1..(Len(s) - 1) : s[n + 1] = 58 /\ \A i \in 1..n : IsLetter(s[i])
    ELSE 0

\* the index of the first '/' of s, Len(s) + 1 when there is none
FirstSlash(s) ==
    IF \E i \in 1..Len(s) : s[i] = 47
    THEN CHOOSE i \in 1..Len(s) : s[i] = 47 /\ \A j \in 1..(i - 1) : s[j] # 47
    ELSE Len(s) + 1

\* url.Parse(s) of a string it accepts: scheme "://" host path, or a path alone
ParseURL(s) ==
    LET n == SchemeLen(s)
        rest == IF n = 0 THEN s ELSE SubSeq(s, n + 2, Len(s))
    IN  IF Len(rest) >= 2 /\ rest[1] = 47 /\ rest[2] = 47
        THEN LET auth == SubSeq(rest, 3, Len(rest))
             IN  [Scheme |-> SubSeq(s, 1, n),
                  Host |-> SubSeq(auth, 1, FirstSlash(auth) - 1),
                  Path |-> SubSeq(auth, FirstSlash(auth), Len(auth))]
        ELSE [Scheme |-> SubSeq(s, 1, n), Host |-> <<>>, Path |-> rest]

\* endpoints given to NewClient: "h://x", "s://y/b", "x" and a string with a
\* control character
Endpoints ==
    {<<104, 58, 47, 47, 120>>, <<115, 58, 47, 47, 121, 47, 98>>, <<120>>, <<127>>}

\* URLs the caller builds requests for: "/a", "s://e/a", "h://x/b"
CallerURLs ==
    {<<47, 97>>, <<115, 58, 47, 47, 101, 47, 97>>, <<104, 58, 47, 47, 120, 47, 98>>}

InitClient ==
    /\ Init
    /\ validity = 1

\* client.NewClient(endpoint, apiKey, secret, allowInsecure)
NewClient ==
    /\ ~cli.built /\ ~cli.err
    /\ \E endpoint \in Endpoints :
         cli' = IF ParseFails(endpoint)
                THEN [built |-> FALSE, err |-> TRUE, url |-> NilURL]
                ELSE [built |-> TRUE, err |-> FALSE, url |-> ParseURL(endpoint)]
    /\ UNCHANGED <<validity, gen, req, clock, res, signs, edits, signRec, signedAt, base,
                   rej, calls, do, rt, rp>>

\* http.NewRequest("GET", url, nil)
NewRequest ==
    /\ do.pc \in {"idle", "sent"}
    /\ \E u \in CallerURLs :
         /\ req' = [Method |-> GET, Path |-> ParseURL(u).Path, Header |-> NoHeader]
         /\ do' = [NoDo EXCEPT !.url = ParseURL(u), !.orig = ParseURL(u)]
    /\ signedAt' = -1
    /\ res' = NoResult
    /\ rej' = NoRejection
    /\ UNCHANGED <<validity, gen, clock, signs, edits, signRec, base, calls, cli, rt, rp>>

\* variant: only the scheme of the request is overwritten
DoRewrite_KeepsHost ==
    /\ cli.built
    /\ do.pc \in {"idle", "sent"}
    /\ signs < MaxSigns
    /\ do' = [do EXCEPT !.pc = "rewritten", !.url.Scheme = cli.url.Scheme]
    /\ UNCHANGED <<validity, gen, req, clock, res, signs, edits, signRec, signedAt, base,
                   rej, calls, cli, rt, rp>>

\* Do, first part: c.url is set; req.URL.Scheme and req.URL.Host are overwritten
DoRewrite ==
    /\ cli.built
    /\ do.pc \in {"idle", "sent"}
    /\ signs < MaxSigns
    /\ do' = [do EXCEPT !.pc = "rewritten", !.url.Scheme = cli.url.Scheme,
                        !.url.Host = cli.url.Host]
    /\ UNCHANGED <<validity, gen, req, clock, res, signs, edits, signRec, signedAt, base,
                   rej, calls, cli, rt, rp>>

\* Do, second part: c.hGenerator.AddAuthHeaders(req)
DoSign ==
    /\ do.pc = "rewritten"
    /\ req' = Signed(gen, req, clock)
    /\ signRec' = [made |-> TRUE, sig |-> SignSignature(gen, req, clock),
                   ts |-> SignTimeStamp(clock)]
    /\ signedAt' = clock
    /\ signs' = signs + 1
    /\ do' = [do EXCEPT !.pc = "signed",
                        !.signed = [Scheme |-> do.url.Scheme, Host |-> do.url.Host,
                                    Method |-> req.Method, Path |-> req.Path,
                                    Header |-> req'.Header]]
    /\ res' = NoResult
    /\ rej' = NoRejection
    /\ UNCHANGED <<validity, gen, clock, edits, base, calls, cli, rt, rp>>

\* Do, third part: c.hClient.Do(req) sends the request to req.URL
DoDispatch ==
    /\ do.pc = "signed"
    /\ do' = [do EXCEPT !.pc = "sent",
                        !.sent = [Scheme |-> do.url.Scheme, Host |-> do.url.Host,
                                  Method |-> req.Method, Path |-> req.Path,
                                  Header |-> req.Header]]
    /\ UNCHANGED <<validity, gen, req, clock, res, signs, edits, signRec, signedAt, base,
                   rej, calls, cli, rt, rp>>

NextClient ==
    \/ Tick
    \/ NewClient
    \/ NewRequest
    \/ DoRewrite
    \/ DoSign
    \/ DoDispatch

SpecClient == InitClient /\ [][NextClient]_vars

\* C11: the request that Do signs and the request it dispatches have the
\* scheme and host of the configured endpoint, whatever the caller set; the
\* dispatched request is the signed one.
C11_EndpointPinning ==
    /\ do.pc \in {"signed", "sent"} =>
          /\ do.signed.Scheme = cli.url.Scheme
          /\ do.signed.Host = cli.url.Host
    /\ do.pc = "sent" =>
          /\ do.sent.Scheme = cli.url.Scheme
          /\ do.sent.Host = cli.url.Host
          /\ do.sent.Header = do.signed.Header
          /\ HeaderGet(do.sent.Header, "x-signature") # <<>>

\* a request the caller addressed to another scheme and host was dispatched
C11_Witness ==
    /\ do.pc = "sent"
    /\ do.orig.Host # cli.url.Host
    /\ do.orig.Scheme # cli.url.Scheme
    /\ do.orig.Host # <<>>

\* C12: the path that Do signs and dispatches is the path of the configured
\* endpoint, not the one the caller set.
C12_PathOverwritten ==
    do.pc = "sent" =>
        /\ do.signed.Path = cli.url.Path
        /\ do.sent.Path = cli.url.Path

(***************************************************************************)
(* route.GetRouteTable and route.LocateRouteTable, one call at a time       *)
(***************************************************************************)
\* the store clients a caller may pass; the collection is the client's
StoreClients == {1, 2}

InitRoute ==
    /\ Init
    /\ validity = 1

\* GetRouteTable()
GetRouteTable ==
    /\ rt.n < MaxRouteCalls
    /\ rt' = [rt EXCEPT
                !.n = rt.n + 1,
                !.returned = IF rt.routeTable # NilTable
                             THEN rt.returned \cup {rt.routeTable} ELSE rt.returned,
                !.last = [op |-> "get", before |-> rt.first,
                          ret |-> rt.routeTable,
                          err |-> IF rt.routeTable # NilTable THEN "" ELSE "NotFound",
                          initialized |-> FALSE]]
    /\ UNCHANGED <<validity, gen, req, clock, res, signs, edits, signRec, signedAt, base,
                   rej, calls, cli, do, rp>>

\* variant: no presence check, every call builds and stores a table
LocateRouteTable_NoCheck ==
    /\ rt.n < MaxRouteCalls
    /\ \E client \in StoreClients, ok \in BOOLEAN :
         LET tbl == [id |-> rt.created + 1, col |-> client]
         IN  rt' = IF ~ok
                   THEN [rt EXCEPT !.n = rt.n + 1, !.created = rt.created + 1,
                                   !.last = [op |-> "locate", before |-> rt.first,
                                             ret |-> NilTable, err |-> "Initialize",
                                             initialized |-> TRUE]]
                   ELSE [rt EXCEPT !.n = rt.n + 1, !.created = rt.created + 1,
                                   !.routeTable = tbl,
                                   !.first = IF rt.first = NilTable THEN tbl ELSE rt.first,
                                   !.stored = rt.stored \cup {tbl},
                                   !.returned = rt.returned \cup {tbl},
                                   !.last = [op |-> "locate", before |-> rt.first,
                                             ret |-> tbl, err |-> "",
                                             initialized |-> TRUE]]
    /\ UNCHANGED <<validity, gen, req, clock, res, signs, edits, signRec, signedAt, base,
                   rej, calls, cli, do, rp>>

\* LocateRouteTable(client)
LocateRouteTable ==
    /\ rt.n < MaxRouteCalls
    /\ \E client \in StoreClients, ok \in BOOLEAN :
         LET tbl == [id |-> rt.created + 1, col |-> client]
         IN  rt' = IF rt.routeTable # NilTable
                   THEN [rt EXCEPT !.n = rt.n + 1,
                                   !.returned = rt.returned \cup {rt.routeTable},
                                   !.last = [op |-> "locate", before |-> rt.first,
                                             ret |-> rt.routeTable, err |-> "",
                                             initialized |-> FALSE]]
                   ELSE IF ~ok
                   THEN [rt EXCEPT !.n = rt.n + 1, !.created = rt.created + 1,
                                   !.last = [op |-> "locate", before |-> rt.first,
                                             ret |-> NilTable, err |-> "Initialize",
                                             initialized |-> TRUE]]
                   ELSE [rt EXCEPT !.n = rt.n + 1, !.created = rt.created + 1,
                                   !.routeTable = tbl,
                                   !.first = IF rt.first = NilTable THEN tbl ELSE rt.first,
                                   !.stored = rt.stored \cup {tbl},
                                   !.returned = rt.returned \cup {tbl},
                                   !.last = [op |-> "locate", before |-> rt.first,
                                             ret |-> tbl, err |-> "",
                                             initialized |-> TRUE]]
    /\ UNCHANGED <<validity, gen, req, clock, res, signs, edits, signRec, signedAt, base,
                   rej, calls, cli, do, rp>>

NextRoute ==
    \/ GetRouteTable
    \/ LocateRouteTable

SpecRoute == InitRoute /\ [][NextRoute]_vars

\* C13: with one call at a time, GetRouteTable fails with NotFound exactly
\* when no LocateRouteTable has succeeded yet; a LocateRouteTable whose
\* Initialize fails returns the error and leaves the singleton unset; once a
\* LocateRouteTable has succeeded, every later call returns that instance
\* without initializing again, and the singleton is never replaced.
C13_SequentialSingleton ==
    /\ (rt.first = NilTable) = (rt.routeTable = NilTable)
    /\ rt.first # NilTable => rt.routeTable = rt.first
    /\ rt.last.op = "get" =>
          /\ (rt.last.err = "NotFound") = (rt.last.before = NilTable)
          /\ rt.last.err = "NotFound" => rt.last.ret = NilTable
          /\ rt.last.err = "" => rt.last.ret = rt.last.before
    /\ (rt.last.op = "locate" /\ rt.last.err # "") =>
          /\ rt.last.before = NilTable
          /\ rt.last.ret = NilTable
          /\ rt.routeTable = NilTable
    /\ (rt.last.op = "locate" /\ rt.last.before = NilTable) => rt.last.initialized
    /\ (rt.last.op = "locate" /\ rt.last.before # NilTable) =>
          /\ rt.last.ret = rt.last.before
          /\ rt.last.err = ""
          /\ ~rt.last.initialized
    /\ Cardinality(rt.stored) <= 1
    /\ Cardinality(rt.returned) <= 1

\* a LocateRouteTable call returned the stored instance, which was built
\* after an earlier Initialize had failed
C13_Witness ==
    /\ rt.last.op = "locate"
    /\ rt.last.before # NilTable
    /\ rt.last.ret = rt.first
    /\ rt.first.id >= 2
    /\ ~rt.last.initialized

(***************************************************************************)
(* route.GetRouteTable and route.LocateRouteTable called from goroutines    *)
(***************************************************************************)
\* a call returns to its caller
RouteReturn(p, ret) ==
    /\ rp' = [rp EXCEPT ![p] = RouteIdle]
    /\ rt' = [rt EXCEPT !.returned = IF ret # NilTable THEN rt.returned \cup {ret}
                                     ELSE rt.returned]

RouteBegin(p) ==
    /\ rp[p].pc = "idle"
    /\ rt.n < MaxRouteConcCalls
    /\ \E op \in {"get", "locate"}, client \in StoreClients :
         rp' = [rp EXCEPT ![p] = [RouteIdle EXCEPT !.pc = "check", !.op = op,
                                                  !.client = client]]
    /\ rt' = [rt EXCEPT !.n = rt.n + 1]
    /\ UNCHANGED <<validity, gen, req, clock, res, signs, edits, signRec, signedAt, base,
                   rej, calls, cli, do>>

\* if routeTable != nil
RouteCheck(p) ==
    /\ rp[p].pc = "check"
    /\ IF rt.routeTable # NilTable
       THEN /\ rp' = [rp EXCEPT ![p].pc = "return"]
            /\ rt' = rt
       ELSE IF rp[p].op = "get"
       THEN RouteReturn(p, NilTable)
       ELSE /\ rp' = [rp EXCEPT ![p].pc = "init",
                                ![p].tbl = [id |-> rt.created + 1, col |-> rp[p].client]]
            /\ rt' = [rt EXCEPT !.created = rt.created + 1]
    /\ UNCHANGED <<validity, gen, req, clock, res, signs, edits, signRec, signedAt, base,
                   rej, calls, cli, do>>

\* err := tbl.Initialize(col); if err != nil { return nil, err }
RouteInitialize(p) ==
    /\ rp[p].pc = "init"
    /\ \E ok \in BOOLEAN :
         IF ok
         THEN /\ rp' = [rp EXCEPT ![p].pc = "assign"]
              /\ rt' = rt
         ELSE RouteReturn(p, NilTable)
    /\ UNCHANGED <<validity, gen, req, clock, res, signs, edits, signRec, signedAt, base,
                   rej, calls, cli, do>>

\* routeTable = tbl
RouteAssign(p) ==
    /\ rp[p].pc = "assign"
    /\ rt' = [rt EXCEPT !.routeTable = rp[p].tbl,
                        !.first = IF rt.first = NilTable THEN rp[p].tbl ELSE rt.first,
                        !.stored = rt.stored \cup {rp[p].tbl}]
    /\ rp' = [rp EXCEPT ![p].pc = "return"]
    /\ UNCHANGED <<validity, gen, req, clock, res, signs, edits, signRec, signedAt, base,
                   rej, calls, cli, do>>

\* return routeTable, nil
RouteReadAndReturn(p) ==
    /\ rp[p].pc = "return"
    /\ RouteReturn(p, rt.routeTable)
    /\ UNCHANGED <<validity, gen, req, clock, res, signs, edits, signRec, signedAt, base,
                   rej, calls, cli, do>>

NextRouteConc ==
    \E p \in RouteCallers :
        \/ RouteBegin(p)
        \/ RouteCheck(p)
        \/ RouteInitialize(p)
        \/ RouteAssign(p)
        \/ RouteReadAndReturn(p)

SpecRouteConc == InitRoute /\ [][NextRouteConc]_vars

\* C14: whatever the interleaving of concurrent calls, all calls that return
\* a table return the same instance, and at most one initialized instance is
\* ever stored in the singleton.
C14_ConcurrentSingleton ==
    /\ Cardinality(rt.returned) <= 1
    /\ Cardinality(rt.stored) <= 1

====
